---- MODULE Spec2Model ----
(***************************************************************************)
(* Model of the configuration-reconstruction code of the sanding history   *)
(* web app (src/src/lib/configUtils.ts): applyMod, applyFragmentMods,       *)
(* extractConfigMetadata and getRobotConfigAtTime, and of the handlers of   *)
(* its notes server (src/server/index.ts) that write to the collection.     *)
(*                                                                          *)
(* JSON values are tagged records.  An object is a function from its keys   *)
(* (strings) to values, an array is a sequence of elements together with    *)
(* the non-index properties JavaScript lets a program hang on an array.     *)
(* The module code is an ES module and hence strict: a property write on a  *)
(* primitive raises a TypeError, as does any property access on null.       *)
(***************************************************************************)
EXTENDS Integers, Sequences, FiniteSets, TLC

VARIABLES
    \* applyMod call: arguments, position, what the call left behind, and
    \* what the same call made once more left behind
    root, path, value, ppc, pout, pthrew, ptwice,
    \* applyFragmentMods call
    doc, epc, eout,
    \* getRobotConfigAtTime call
    pc, timestamp, history, lastChangeIndex, part, calls, failed, result,
    \* notes server: the sanding_notes collection, the next _id the store
    \* hands out, and per request its handler's position, the request, the
    \* _ids a find left with the handler, and the response sent; overlapping
    \* says whether requests arrive while another one is being handled
    notes, nextId, npc, req, idsToDelete, resp, overlapping

pvars == <<root, path, value, ppc, pout, pthrew, ptwice>>
evars == <<doc, epc, eout>>
rvars == <<pc, timestamp, history, lastChangeIndex, part, calls, failed, result>>
nvars == <<notes, nextId, npc, req, idsToDelete, resp, overlapping>>
vars == <<root, path, value, ppc, pout, pthrew, ptwice, doc, epc, eout,
          pc, timestamp, history, lastChangeIndex, part, calls, failed, result,
          notes, nextId, npc, req, idsToDelete, resp, overlapping>>

----------------------------------------------------------------------------
(* JSON values *)

Undef == [k |-> "undefined"]
Null == [k |-> "null"]
Num(n) == [k |-> "num", n |-> n]
Str(s) == [k |-> "str", s |-> s]
Obj(f) == [k |-> "obj", o |-> f]
Arr(a) == [k |-> "arr", a |-> a, p |-> <<>>]
NoKeys == <<>>

\* f with key kk bound to v (added when absent)
Put(f, kk, v) == [x \in DOMAIN f \cup {kk} |-> IF x = kk THEN v ELSE f[x]]

\* current[key] for a non-null current; keys are never array indices here
Get(cur, key) ==
    CASE cur.k = "obj" -> IF key \in DOMAIN cur.o THEN cur.o[key] ELSE Undef
      [] cur.k = "arr" -> IF key \in DOMAIN cur.p THEN cur.p[key] ELSE Undef
      [] OTHER -> Undef

\* current[key] = v for an object or an array current
SetKey(cur, key, v) ==
    IF cur.k = "obj" THEN [cur EXCEPT !.o = Put(cur.o, key, v)]
    ELSE [cur EXCEPT !.p = Put(cur.p, key, v)]

----------------------------------------------------------------------------
(* Paths.  path.split('.') yields the segments; a segment is kept with the  *)
(* outcome of the two regular expressions the code runs on it:              *)
(* /(\w+)\[(\w+)=(.+)\]/ (filter, arr, prop, val) and \w+ (word).           *)

Key(t) == [text |-> t, filter |-> FALSE, arr |-> "", prop |-> "", val |-> "", word |-> TRUE]
Filter(t, a, pr, vl) ==
    [text |-> t, filter |-> TRUE, arr |-> a, prop |-> pr, val |-> vl, word |-> FALSE]
\* A key with a character \w does not match, such as the - of my-motor
Dashed(t) == [text |-> t, filter |-> FALSE, arr |-> "", prop |-> "", val |-> "", word |-> FALSE]

\* (item) => item[propName] === propValue, for an item that is not null
ItemMatches(item, prop, val) == Get(item, prop) = Str(val)

\* The mutated find: the last matching element instead of the first.
FindItemLast(a, prop, val) ==
    LET stops == {i \in 1..Len(a) : a[i] = Null \/ ItemMatches(a[i], prop, val)}
        last == CHOOSE i \in stops : \A j \in stops : j <= i
    IN  IF stops = {} THEN [idx |-> 0, threw |-> FALSE]
        ELSE IF \E i \in stops : a[i] = Null THEN [idx |-> 0, threw |-> TRUE]
        ELSE [idx |-> last, threw |-> FALSE]

\* current[arrayName].find(item => item[propName] === propValue): the index
\* of the first match (0: none); reading a property of a null element on the
\* way raises a TypeError.
FindItem(a, prop, val) ==
    LET stops == {i \in 1..Len(a) : a[i] = Null \/ ItemMatches(a[i], prop, val)}
        first == CHOOSE i \in stops : \A j \in stops : i <= j
    IN  IF stops = {} THEN [idx |-> 0, threw |-> FALSE]
        ELSE IF a[first] = Null THEN [idx |-> 0, threw |-> TRUE]
        ELSE [idx |-> first, threw |-> FALSE]

\* Whether a step of the walk at node current raises a TypeError: reading
\* current[...] raises for null, and for a number or string every key the
\* walk reads is undefined, so the step writes current[key], which raises in
\* strict mode.
StepThrows(cur) == cur.k \notin {"obj", "arr"}

RECURSIVE Walk(_, _, _)
\* The loop and the final assignment of applyMod from node cur with the
\* segments segs still to go.  ok: no TypeError was raised; v: cur as the call
\* left it (what was written before a TypeError stays written).
Walk(cur, segs, val) ==
    IF StepThrows(cur) THEN [ok |-> FALSE, v |-> cur]
    ELSE IF Len(segs) = 1 THEN [ok |-> TRUE, v |-> SetKey(cur, segs[1].text, val)]
    ELSE
        LET seg == Head(segs)
            rest == Tail(segs)
            arrv == IF seg.filter THEN Get(cur, seg.arr) ELSE Undef
            found == IF arrv.k = "arr" THEN FindItem(arrv.a, seg.prop, seg.val)
                     ELSE [idx |-> 0, threw |-> FALSE]
            child == Get(cur, seg.text)
        IN  IF found.threw THEN [ok |-> FALSE, v |-> cur]
            ELSE IF found.idx > 0 THEN
                \* current = foundItem; continue
                LET r == Walk(arrv.a[found.idx], rest, val)
                IN  [ok |-> r.ok,
                     v |-> SetKey(cur, seg.arr, [arrv EXCEPT !.a[found.idx] = r.v])]
            ELSE
                \* no filter, or the filter found nothing: the segment text is
                \* the key; current[key] = {} when it is undefined
                LET r == Walk(IF child = Undef THEN Obj(NoKeys) ELSE child, rest, val)
                IN  [ok |-> r.ok, v |-> SetKey(cur, seg.text, r.v)]

\* applyMod(config, path, value), path already split into its segments
applyMod(config, keys, val) == Walk(config, keys, val)

----------------------------------------------------------------------------
(* applyFragmentMods.  A configuration document is its tree (every key but  *)
(* fragment_mods) and its fragment_mods: hasMods says that the key holds an *)
(* array, mods is that array.  A group is [hasMods, mods], a mod is         *)
(* [hasSet, set], and set lists the (path, value) pairs of $set in the      *)
(* order for...in enumerates them.                                          *)

RECURSIVE Clone(_)
\* JSON.parse(JSON.stringify(v)): a deep copy; JSON keeps the elements of an
\* array and none of its other properties.
Clone(v) ==
    CASE v.k = "obj" -> Obj([x \in DOMAIN v.o |-> Clone(v.o[x])])
      [] v.k = "arr" -> Arr([i \in 1..Len(v.a) |-> Clone(v.a[i])])
      [] OTHER -> v

\* path.match(/components\.(\w+)\.(.+)/): the leftmost place the expression
\* matches (0: no match).  It is not anchored.
ComponentMatch(keys) ==
    LET at == {i \in 1..Len(keys) : /\ keys[i].text = "components"
                                    /\ ~keys[i].filter
                                    /\ i + 2 <= Len(keys)
                                    /\ keys[i + 1].word}
    IN  IF at = {} THEN 0 ELSE CHOOSE i \in at : \A j \in at : i <= j

\* if (component) { ... } has no else: with no component of that name the
\* operation is skipped and the working copy stays as it is.
ComponentNotFound(cfg, keys, val) == [ok |-> TRUE, v |-> cfg]

\* One (path, value) of a $set applied to the working copy.
ApplySet(cfg, keys, val) ==
    LET m == ComponentMatch(keys)
        comps == Get(cfg, "components")
        found == IF comps.k = "arr" THEN FindItem(comps.a, "name", keys[m + 1].text)
                 ELSE [idx |-> 0, threw |-> FALSE]
    IN  IF m = 0 THEN applyMod(cfg, keys, val)
        ELSE IF comps.k \in {"undefined", "null"} THEN ComponentNotFound(cfg, keys, val)
        ELSE IF comps.k # "arr" THEN [ok |-> FALSE, v |-> cfg]
        ELSE IF found.threw THEN [ok |-> FALSE, v |-> cfg]
        ELSE IF found.idx = 0 THEN ComponentNotFound(cfg, keys, val)
        ELSE LET r == applyMod(comps.a[found.idx], SubSeq(keys, m + 2, Len(keys)), val)
             IN  [ok |-> r.ok,
                  v |-> SetKey(cfg, "components", [comps EXCEPT !.a[found.idx] = r.v])]

RECURSIVE ApplySets(_, _)
\* for (const path in mod.$set), in enumeration order; a TypeError ends it
ApplySets(st, set) ==
    IF ~st.ok \/ set = <<>> THEN st
    ELSE ApplySets(ApplySet(st.v, Head(set).path, Head(set).val), Tail(set))

RECURSIVE ApplyMods(_, _)
\* for (const mod of fragmentMod.mods)
ApplyMods(st, mods) ==
    IF ~st.ok \/ mods = <<>> THEN st
    ELSE ApplyMods(IF Head(mods).hasSet THEN ApplySets(st, Head(mods).set) ELSE st,
                   Tail(mods))

\* The mutated loop: the groups of fragment_mods replayed last to first.
RECURSIVE ApplyGroupsReversed(_, _)
ApplyGroupsReversed(st, groups) ==
    IF ~st.ok \/ groups = <<>> THEN st
    ELSE LET g == groups[Len(groups)]
         IN  ApplyGroupsReversed(IF g.hasMods THEN ApplyMods(st, g.mods) ELSE st,
                                 SubSeq(groups, 1, Len(groups) - 1))

RECURSIVE ApplyGroups(_, _)
\* for (const fragmentMod of newConfig.fragment_mods)
ApplyGroups(st, groups) ==
    IF ~st.ok \/ groups = <<>> THEN st
    ELSE ApplyGroups(IF Head(groups).hasMods THEN ApplyMods(st, Head(groups).mods) ELSE st,
                     Tail(groups))

\* The mutated working copy: newConfig is the argument itself.
NewConfigAliased(config) == [copied |-> FALSE, tree |-> config.tree]

\* const newConfig = JSON.parse(JSON.stringify(config)): an object of its own
NewConfig(config) == [copied |-> TRUE, tree |-> Clone(config.tree)]

\* applyFragmentMods(config).  threw: a TypeError left the function; copied:
\* the value returned is the deep copy and not the argument; tree: the tree
\* of the returned document (its fragment_mods are those of the argument);
\* arg: the tree of the argument as the call left it, which is the tree the
\* writes went to when the working copy is the argument itself.
applyFragmentMods(config) ==
    IF ~config.hasMods
    THEN [threw |-> FALSE, copied |-> FALSE, tree |-> config.tree, arg |-> config.tree]
    ELSE LET newConfig == NewConfig(config)
             r == ApplyGroups([ok |-> TRUE, v |-> newConfig.tree], config.mods)
         IN  [threw |-> ~r.ok, copied |-> newConfig.copied, tree |-> r.v,
              arg |-> IF newConfig.copied THEN config.tree ELSE r.v]

----------------------------------------------------------------------------
(* Inputs of the applyMod calls checked *)

MaxItems == 2
MaxPathLen == 3

ObjOf1(k1, v1) == Obj([x \in {k1} |-> v1])
ObjOf2(k1, v1, k2, v2) == Obj([x \in {k1, k2} |-> IF x = k1 THEN v1 ELSE v2])

ItemX == ObjOf2("name", Str("x"), "v", Num(1))
ItemY == ObjOf2("name", Str("y"), "v", Num(2))
ItemY2 == ObjOf2("name", Str("y"), "v", Obj(NoKeys))
PatchItems == {ItemX, ItemY, ItemY2, Null}

SeqsUpTo(S, n) == UNION {[1..m -> S] : m \in 0..n}

\* root.items: absent, not an array, or an array of at most MaxItems elements
PatchItemsField == {Undef, Num(1)} \cup {Arr(a) : a \in SeqsUpTo(PatchItems, MaxItems)}
\* root.a: absent, null, or an object holding a number
PatchAField == {Undef, Null, ObjOf1("v", Num(1))}

RootOf(a, items) ==
    Obj([x \in {y \in {"a", "items"} : (y = "a" /\ a # Undef) \/ (y = "items" /\ items # Undef)}
            |-> IF x = "a" THEN a ELSE items])

PatchRoots == {RootOf(a, items) : a \in PatchAField, items \in PatchItemsField}

SegY == Filter("items[name=y]", "items", "name", "y")
SegZ == Filter("items[name=z]", "items", "name", "z")
PatchSegs == {Key("a"), Key("v"), Key("name"), SegY, SegZ}
PatchPaths == SeqsUpTo(PatchSegs, MaxPathLen) \ {<<>>}
PatchValues == {Num(9), ObjOf1("v", Num(9))}

NoHistory == [present |-> FALSE, entries |-> <<>>]

InitResolveIdle ==
    /\ pc = "idle" /\ timestamp = 0 /\ history = NoHistory /\ lastChangeIndex = -1
    /\ part = Undef /\ calls = <<>> /\ failed = FALSE /\ result = Undef

InitExpandIdle == doc = Undef /\ epc = "idle" /\ eout = Undef

\* The notes server is not running.
InitNotesIdle ==
    /\ notes = {} /\ nextId = 0 /\ npc = <<>> /\ req = <<>>
    /\ idsToDelete = <<>> /\ resp = <<>> /\ overlapping = FALSE

InitPatchIdle ==
    /\ root = Undef /\ path = <<>> /\ value = Undef /\ ppc = "idle"
    /\ pout = Undef /\ pthrew = FALSE /\ ptwice = Undef

InitPatch ==
    /\ root \in PatchRoots
    /\ path \in PatchPaths
    /\ value \in PatchValues
    /\ ppc = "ready"
    /\ pout = Undef
    /\ pthrew = FALSE
    /\ ptwice = Undef
    /\ InitExpandIdle
    /\ InitResolveIdle
    /\ InitNotesIdle

\* One call applyMod(root, path, value): pout is root as the call left it.
PatchApply ==
    /\ ppc = "ready"
    /\ LET r == applyMod(root, path, value)
       IN  /\ pout' = r.v
           /\ pthrew' = ~r.ok
    /\ ppc' = "done"
    /\ UNCHANGED <<root, path, value, ptwice, evars, rvars, nvars>>

\* The same call made once more on the tree the first call left behind:
\* applyMod(root, path, value) again, root being the object both calls write.
PatchAgain ==
    /\ ppc = "done"
    /\ ptwice' = applyMod(pout, path, value).v
    /\ ppc' = "twice"
    /\ UNCHANGED <<root, path, value, pout, pthrew, evars, rvars, nvars>>

NextPatch == PatchApply \/ PatchAgain

SpecPatch == InitPatch /\ [][NextPatch]_vars

----------------------------------------------------------------------------
(* Properties of applyMod (SpecPatch) *)

RECURSIVE ReadPath(_, _)
\* node.k1.k2...: the value an ordinary dotted path reads (Undef: nothing)
ReadPath(node, keys) ==
    IF keys = <<>> THEN node
    ELSE IF node.k \notin {"obj", "arr"} THEN Undef
    ELSE ReadPath(Get(node, Head(keys).text), Tail(keys))

AllPlain(keys) == \A i \in 1..Len(keys) : ~keys[i].filter

\* The elements of root[seg.arr] the filter of seg selects (none when the
\* field is absent or no array)
MatchingItems(node, seg) ==
    LET arrv == Get(node, seg.arr)
    IN  IF arrv.k # "arr" THEN {}
        ELSE {i \in 1..Len(arrv.a) :
                /\ arrv.a[i].k = "obj"
                /\ seg.prop \in DOMAIN arrv.a[i].o
                /\ arrv.a[i].o[seg.prop] = Str(seg.val)}

\* The first call has been made.
PatchDone == ppc \in {"done", "twice"}

\* The call walked a filter segment first, and nothing in root answers it.
FilterMissCall ==
    /\ PatchDone
    /\ Len(path) >= 2
    /\ path[1].filter
    /\ MatchingItems(root, path[1]) = {}

\* C6 (as claimed): a patch whose array-filter segment name[field=value]
\* finds root[name] absent, not an array, or without a matching element
\* leaves root completely unchanged and raises no error.
C6_FilterMissIsNoOp == FilterMissCall => (pout = root /\ ~pthrew)

\* C7 (as claimed): applyMod raises no error for any tree and any set path of
\* ordinary segments, also when an intermediate segment already holds a
\* scalar or null.
C7_ApplyModNeverRaises == (PatchDone /\ AllPlain(path)) => ~pthrew

\* The call walked a filter segment first, and root[name] has a match.
FilterHitCall ==
    /\ PatchDone
    /\ Len(path) >= 2
    /\ path[1].filter
    /\ MatchingItems(root, path[1]) # {}

FirstMatching(node, seg) ==
    CHOOSE i \in MatchingItems(node, seg) : \A j \in MatchingItems(node, seg) : i <= j

\* C10: when the array-filter segment name[field=value] of a path matches,
\* the write lands only inside the first element of root[name] whose field
\* equals value: the array keeps its length, every other element (later
\* matches too) and every other key of root is as before, and when the rest
\* of the path is ordinary keys and the call returns, the value is read back
\* at that rest inside the first matching element.
C10_FirstMatchOnly ==
    FilterHitCall =>
        LET seg == path[1]
            i == FirstMatching(root, seg)
            before == root.o[seg.arr]
            after == pout.o[seg.arr]
            rest == Tail(path)
        IN  /\ DOMAIN pout.o = DOMAIN root.o
            /\ \A x \in DOMAIN root.o \ {seg.arr} : pout.o[x] = root.o[x]
            /\ after.k = "arr"
            /\ after.p = before.p
            /\ Len(after.a) = Len(before.a)
            /\ \A j \in 1..Len(before.a) : j # i => after.a[j] = before.a[j]
            /\ (~pthrew /\ AllPlain(rest)) => ReadPath(after.a[i], rest) = value

\* C10 witness: two elements match, the call returned and wrote the value
\* into the first of them.
C10_Witness ==
    /\ FilterHitCall
    /\ Cardinality(MatchingItems(root, path[1])) >= 2
    /\ ~pthrew
    /\ AllPlain(Tail(path))
    /\ pout # root

RECURSIVE SameOutside(_, _, _)
\* Along the path keys, after holds what before held at every key the path
\* does not go through, and no key but those of the path is new.
SameOutside(before, after, keys) ==
    IF keys = <<>> THEN TRUE
    ELSE IF before.k # "obj" \/ after.k # "obj" THEN FALSE
    ELSE LET key == Head(keys).text
             child == IF key \in DOMAIN before.o THEN before.o[key] ELSE Obj(NoKeys)
         IN  /\ DOMAIN after.o = DOMAIN before.o \cup {key}
             /\ \A x \in DOMAIN before.o \ {key} : after.o[x] = before.o[x]
             /\ Len(keys) > 1 => SameOutside(child, after.o[key], Tail(keys))

\* C16 (as claimed): for every tree and every path of ordinary segments the
\* call returns, the value is read back at the path (keys that were missing
\* on the way are new objects, and what the last key held is replaced), and
\* every key off the path holds what it held.
C16_PathCreatedAndReplaced ==
    (PatchDone /\ AllPlain(path)) =>
        /\ ~pthrew
        /\ ReadPath(pout, path) = value
        /\ SameOutside(root, pout, path)

\* C17 (as claimed): the same set operation applied a second time leaves the
\* tree as the first application left it, for paths with and without a
\* filter segment, matching or not.
C17_PatchIdempotent == ppc = "twice" => ptwice = pout

----------------------------------------------------------------------------
(* Inputs of the applyFragmentMods calls checked *)

MaxOps == 3

Comp(name, rpm) == ObjOf2("name", Str(name), "maxRpm", Num(rpm))
\* config.components: absent, or an array of named components (the last one
\* with two components of the same name)
ExpandComponents ==
    {Undef, Arr(<<Comp("motor2", 5), Comp("motor1", 5)>>),
     Arr(<<Comp("motor1", 5), Comp("motor1", 6)>>)}
ExpandAField == {Undef, Null}

TreeOf(a, comps) ==
    Obj([x \in {y \in {"a", "components"} :
                    (y = "a" /\ a # Undef) \/ (y = "components" /\ comps # Undef)}
            |-> IF x = "a" THEN a ELSE comps])

ExpandTrees == {TreeOf(a, c) : a \in ExpandAField, c \in ExpandComponents}

Op(keys, val) == [path |-> keys, val |-> val]
RpmPath(name) == <<Key("components"), Key(name), Key("maxRpm")>>
ExpandOps ==
    {Op(RpmPath("motor1"), Num(10)), Op(RpmPath("motor1"), Num(20)),
     Op(RpmPath("ghost"), Num(10)),
     Op(<<Key("components"), Dashed("my-ghost"), Key("maxRpm")>>, Num(10)),
     Op(<<Key("a"), Key("v")>>, Num(1)), Op(<<Key("a")>>, Obj(NoKeys))}

NoModsGroup == [hasMods |-> FALSE, mods |-> <<>>]
NoSetMod == [hasSet |-> FALSE, set |-> <<>>]

\* fragment_mods holding ops in this order; cuts[i] says where ops[i] starts:
\* a new group, a new mod of the same group, or the next key of the same $set.
\* padded: every group starts with a mod without $set.
RECURSIVE NestFrom(_, _, _, _, _)
NestFrom(groups, ops, cuts, padded, i) ==
    IF i > Len(ops) THEN groups
    ELSE LET g == Len(groups)
             m == IF g = 0 THEN 0 ELSE Len(groups[g].mods)
             mod == [hasSet |-> TRUE, set |-> <<ops[i]>>]
             grp == [hasMods |-> TRUE,
                     mods |-> IF padded THEN <<NoSetMod, mod>> ELSE <<mod>>]
             next == CASE cuts[i] = "group" -> Append(groups, grp)
                       [] cuts[i] = "mod" ->
                            [groups EXCEPT ![g].mods = Append(@, mod)]
                       [] OTHER ->
                            [groups EXCEPT ![g].mods[m].set = Append(@, ops[i])]
         IN  NestFrom(next, ops, cuts, padded, i + 1)

\* The keys of one $set object are distinct.
KeysDistinct(groups) ==
    \A g \in 1..Len(groups) : \A m \in 1..Len(groups[g].mods) :
        LET set == groups[g].mods[m].set
        IN  \A i, j \in 1..Len(set) : set[i].path = set[j].path => i = j

CutsFor(ops) ==
    {c \in [1..Len(ops) -> {"key", "mod", "group"}] : Len(ops) >= 1 => c[1] = "group"}

\* A document with a fragment_mods array of at most MaxOps operations, or
\* without one
InitExpand ==
    /\ \E t \in ExpandTrees :
        \/ doc = [tree |-> t, hasMods |-> FALSE, mods |-> <<>>]
        \/ \E n \in 0..MaxOps, padded \in BOOLEAN :
            \E ops \in [1..n -> ExpandOps] :
              \E cuts \in CutsFor(ops) :
                LET gs == NestFrom(IF padded THEN <<NoModsGroup>> ELSE <<>>, ops, cuts, padded, 1)
                IN  /\ KeysDistinct(gs)
                    /\ doc = [tree |-> t, hasMods |-> TRUE, mods |-> gs]
    /\ epc = "ready"
    /\ eout = Undef
    /\ InitPatchIdle
    /\ InitResolveIdle
    /\ InitNotesIdle

\* One call applyFragmentMods(doc): eout is what the call returned or left
\* behind, doc is the argument object as the call left it.
ExpandApply ==
    /\ epc = "ready"
    /\ LET r == applyFragmentMods(doc)
       IN  /\ eout' = r
           /\ doc' = [doc EXCEPT !.tree = r.arg]
    /\ epc' = "done"
    /\ UNCHANGED <<pvars, rvars, nvars>>

NextExpand == ExpandApply

SpecExpand == InitExpand /\ [][NextExpand]_vars

----------------------------------------------------------------------------
(* Properties of applyFragmentMods (SpecExpand) *)

RECURSIVE FlatMods(_)
FlatMods(mods) ==
    IF mods = <<>> THEN <<>>
    ELSE (IF Head(mods).hasSet THEN Head(mods).set ELSE <<>>) \o FlatMods(Tail(mods))

RECURSIVE FlatGroups(_)
\* Every (path, value) of fragment_mods in list order: groups in order, the
\* mods of a group in order, the keys of a $set in order
FlatGroups(groups) ==
    IF groups = <<>> THEN <<>>
    ELSE (IF Head(groups).hasMods THEN FlatMods(Head(groups).mods) ELSE <<>>)
         \o FlatGroups(Tail(groups))

IsPrefix(p, q) == Len(p) <= Len(q) /\ SubSeq(q, 1, Len(p)) = p
Overlap(p, q) == IsPrefix(p, q) \/ IsPrefix(q, p)

IsComponentPath(keys) == Len(keys) >= 3 /\ keys[1] = Key("components") /\ keys[2].word
ComponentSeg(keys) == Filter("", "components", "name", keys[2].text)

\* What the document tree holds at the target of a set path: inside the first
\* component of that name for components.<name>.<rest>, at the path otherwise
ReadTarget(tree, keys) ==
    IF IsComponentPath(keys)
    THEN LET hits == MatchingItems(tree, ComponentSeg(keys))
         IN  IF hits = {} THEN Undef
             ELSE ReadPath(tree.o["components"].a[FirstMatching(tree, ComponentSeg(keys))],
                           SubSeq(keys, 3, Len(keys)))
    ELSE ReadPath(tree, keys)

\* The set operation has a place to write to.
HasTarget(tree, keys) ==
    IsComponentPath(keys) => MatchingItems(tree, ComponentSeg(keys)) # {}

ExpandDone == epc = "done" /\ doc.hasMods

\* C8: the operations are replayed in list order (groups, then the mods of a
\* group, then the keys of a $set), so of the operations that write one
\* target path the last one decides the value in the result, as long as no
\* operation after it writes a path that overlaps it.
C8_LastWriteWins ==
    (ExpandDone /\ ~eout.threw) =>
        LET ops == FlatGroups(doc.mods)
        IN  \A j \in 1..Len(ops) :
                (/\ HasTarget(doc.tree, ops[j].path)
                 /\ \A l \in (j + 1)..Len(ops) : ~Overlap(ops[l].path, ops[j].path))
                => ReadTarget(eout.tree, ops[j].path) = ops[j].val

\* C8 witness: two groups set components.motor1.maxRpm to 10, then to 20,
\* and the result holds 20.
C8_Witness ==
    /\ ExpandDone /\ ~eout.threw
    /\ Len(doc.mods) = 2
    /\ FlatGroups(<<doc.mods[1]>>) = <<Op(RpmPath("motor1"), Num(10))>>
    /\ FlatGroups(<<doc.mods[2]>>) = <<Op(RpmPath("motor1"), Num(20))>>
    /\ ReadTarget(doc.tree, RpmPath("motor1")) = Num(5)
    /\ ReadTarget(eout.tree, RpmPath("motor1")) = Num(20)

\* The $set at group g, mod m without its k-th key
WithoutOp(d, g, m, k) ==
    [d EXCEPT !.mods[g].mods[m].set =
        [i \in 1..(Len(@) - 1) |-> IF i < k THEN @[i] ELSE @[i + 1]]]

\* The path has the shape components.<name>.<rest>
NamesComponent(keys) == Len(keys) >= 3 /\ keys[1] = Key("components") /\ ~keys[2].filter
NamedSeg(keys) == Filter("", "components", "name", keys[2].text)

\* The operations of the document that name a component it does not have
MissingComponentOps ==
    {pos \in UNION {UNION {{<<g, m, k>> : k \in 1..Len(doc.mods[g].mods[m].set)} :
                            m \in 1..Len(doc.mods[g].mods)} : g \in 1..Len(doc.mods)} :
        LET keys == doc.mods[pos[1]].mods[pos[2]].set[pos[3]].path
        IN  NamesComponent(keys) /\ MatchingItems(doc.tree, NamedSeg(keys)) = {}}

\* C9 (as claimed): a set operation components.<name>.<rest> for a name no
\* component has writes nothing anywhere in the result, and the other
\* operations are applied all the same: the call ends as it ends for the
\* same document without that operation.
C9_MissingComponentSkipped ==
    ExpandDone =>
        \A pos \in MissingComponentOps :
            LET other == applyFragmentMods(WithoutOp(doc, pos[1], pos[2], pos[3]))
            IN  /\ eout.threw = other.threw
                /\ eout.tree = other.tree

\* C11: a call of applyFragmentMods on a document that carries fragment_mods
\* leaves the argument deep-equal to what it was, whether the call returns or
\* raises; what it returns is a copy of its own, and that copy takes the
\* writes.
C11_ArgumentUntouched ==
    [][(epc = "ready" /\ doc.hasMods) => (doc' = doc /\ eout'.copied)]_vars

\* C11 witness: a call on a document with fragment_mods returned a tree that
\* differs from the tree of its argument.
C11_Witness ==
    /\ ExpandDone /\ ~eout.threw
    /\ eout.copied
    /\ eout.tree # doc.tree
    /\ ReadTarget(doc.tree, RpmPath("motor1")) = Num(5)
    /\ ReadTarget(eout.tree, RpmPath("motor1")) = Num(10)

----------------------------------------------------------------------------
(* getRobotConfigAtTime.  A history entry is [hasWhen, when, old, part,     *)
(* robot, editedBy]; old and the part getRobotPart returns are a RobotPart  *)
(* [k |-> "part", robotConfig] or Undef; robotConfig is Undef or a struct   *)
(* [hasFields, doc]: the document is robotConfig.fields when there is one   *)
(* and robotConfig itself otherwise.                                        *)

\* The mutated test: the comparison turned around.
AtOrAfter(entry, ts) == entry.hasWhen /\ entry.when >= ts

\* entry => { const entryTime = entry.when?.toDate();
\*            return entryTime && entryTime <= timestamp; }
AtOrBefore(entry, ts) == entry.hasWhen /\ entry.when <= ts

\* history.indexOf(history.find(...)): the 0-based index of the first entry
\* at or before the timestamp, -1 when find returns undefined
LastChangeIndex(entries, ts) ==
    LET hits == {i \in 1..Len(entries) : AtOrBefore(entries[i], ts)}
    IN  IF hits = {} THEN -1 ELSE (CHOOSE i \in hits : \A j \in hits : i <= j) - 1

\* The mutated choice: the boundary entry itself.
BoundaryItself(idx) == idx

\* history[lastChangeIndex - 1], for lastChangeIndex > 0 (0-based)
NewerNeighbour(idx) == idx - 1

\* The mutated fallback: the fetch is skipped at index 0 as well.
NeverFetches(idx) == FALSE

\* The mutated fallback: the current part is fetched whatever the index.
AlwaysFetches(idx) == TRUE

\* else branch of if (lastChangeIndex > 0): the current part is fetched
FetchesCurrent(idx) == ~(idx > 0)

\* The mutated metadata: taken from the entry the snapshot was read from.
MetadataOfSnapshotEntry(boundary, configEntry) == configEntry

\* extractConfigMetadata(lastChangeEntry): the entry the metadata is read from
MetadataEntry(boundary, configEntry) == boundary

Clock == [fromEntry |-> FALSE, t |-> 0]

\* extractConfigMetadata(entry)
extractConfigMetadata(entry) ==
    [partId |-> IF entry.part = Undef THEN "" ELSE entry.part.s,
     robotId |-> IF entry.robot = Undef THEN "" ELSE entry.robot.s,
     configTimestamp |-> IF entry.hasWhen THEN [fromEntry |-> TRUE, t |-> entry.when]
                         ELSE Clock,
     editedBy |-> entry.editedBy,
     hasOldConfig |-> entry.old # Undef]

NullResult == [k |-> "null"]

\* The mutated checks: the snapshot is read without a look at its shape.
MalformedSnapshotRaises(configEntry) == [k |-> "TypeError"]

\* if (!configEntry?.old) return null; if (!robotConfig) return null
MalformedSnapshot(configEntry) == NullResult

\* Lines 192-210: from the chosen configEntry to the value returned; a
\* TypeError out of applyFragmentMods lands in the catch, which returns null.
Finish(boundary, configEntry) ==
    IF configEntry.old = Undef THEN MalformedSnapshot(configEntry)
    ELSE IF configEntry.old.robotConfig = Undef THEN MalformedSnapshot(configEntry)
    ELSE LET baseConfig == configEntry.old.robotConfig.doc
             final == applyFragmentMods(baseConfig)
         IN  IF final.threw THEN NullResult
             ELSE [k |-> "result",
                   config |-> [baseConfig EXCEPT !.tree = final.tree],
                   metadata |-> extractConfigMetadata(MetadataEntry(boundary, configEntry))]

----------------------------------------------------------------------------
(* Inputs of the getRobotConfigAtTime calls checked *)

MaxHist == 3
MaxTime == 3

Tagged(n) == ObjOf1("tag", Num(n))
OneSet(op) == <<[hasMods |-> TRUE, mods |-> <<[hasSet |-> TRUE, set |-> <<op>>]>>]>>
\* a document without fragment_mods
DocPlain(n) == [tree |-> Tagged(n), hasMods |-> FALSE, mods |-> <<>>]
\* a document whose fragment_mods apply
DocMods(n) ==
    [tree |-> Tagged(n), hasMods |-> TRUE, mods |-> OneSet(Op(<<Key("a"), Key("v")>>, Num(1)))]
\* a document whose fragment_mods raise a TypeError: a is null
DocThrows(n) ==
    [tree |-> ObjOf2("tag", Num(n), "a", Null), hasMods |-> TRUE,
     mods |-> OneSet(Op(<<Key("a"), Key("v")>>, Num(1)))]

PartOf(d, hasFields) ==
    [k |-> "part", robotConfig |-> [k |-> "struct", hasFields |-> hasFields, doc |-> d]]
PartNoConfig == [k |-> "part", robotConfig |-> Undef]

SnapshotKinds == {"absent", "noConfig", "plain", "mods", "throws"}

\* What the old of the entry of time n may be (n = 0: what getRobotPart may
\* answer); the documents carry n, so each says where it was read from
Snapshot(kind, n) ==
    CASE kind = "absent" -> Undef
      [] kind = "noConfig" -> PartNoConfig
      [] kind = "plain" -> PartOf(DocPlain(n), TRUE)
      [] kind = "mods" -> PartOf(DocMods(n), FALSE)
      [] OTHER -> PartOf(DocThrows(n), TRUE)

\* The entry of the change made at time t
Entry(t, old, named) ==
    [hasWhen |-> TRUE, when |-> t, old |-> old,
     part |-> IF named THEN Str("part-1") ELSE Undef,
     robot |-> IF named THEN Str("robot-1") ELSE Undef,
     editedBy |-> IF named THEN ObjOf1("email", Str("a@b")) ELSE Undef]

\* An entry that carries no when
Untimed ==
    [hasWhen |-> FALSE, when |-> 0, old |-> PartOf(DocPlain(MaxTime + 1), TRUE),
     part |-> Undef, robot |-> Undef, editedBy |-> Undef]

\* The history, newest first, of the changes made at the times ts; pl[t] is
\* what the entry of time t carries
HistoryOf(ts, pl) ==
    [i \in 1..Cardinality(ts) |->
        LET t == CHOOSE u \in ts : Cardinality({w \in ts : w > u}) = i - 1
        IN  Entry(t, Snapshot(pl[t][1], t), pl[t][2])]

\* h with an entry without when put in at place at (0: h itself)
WithUntimed(h, at) ==
    IF at = 0 THEN h
    ELSE [i \in 1..(Len(h) + 1) |-> IF i < at THEN h[i] ELSE IF i = at THEN Untimed ELSE h[i - 1]]

InitResolve ==
    /\ pc = "idle" /\ timestamp = 0 /\ history = NoHistory /\ lastChangeIndex = -1
    /\ part = Undef /\ calls = <<>> /\ failed = FALSE /\ result = Undef
    /\ InitPatchIdle
    /\ InitExpandIdle
    /\ InitNotesIdle

\* { old: part }: the fetched part made to look like a history entry
Adapted(p) ==
    [hasWhen |-> FALSE, when |-> 0, old |-> p, part |-> Undef, robot |-> Undef,
     editedBy |-> Undef]

\* history[i] for a 0-based i (undefined outside the array)
EntryAt(entries, i) == IF i + 1 \in 1..Len(entries) THEN entries[i + 1] ELSE Undef

\* getRobotConfigAtTime(viamClient, partId, ts) up to its first await.  The
\* function keeps nothing between calls: a call made after another one starts
\* with locals of its own, and calls lists the fetches of the call under way.
ResolveCall ==
    /\ pc \in {"idle", "done"}
    /\ timestamp' \in 0..MaxTime
    /\ calls' = <<"getRobotPartHistory">>
    /\ pc' = "awaitHistory"
    /\ history' = NoHistory
    /\ lastChangeIndex' = -1
    /\ part' = Undef
    /\ failed' = FALSE
    /\ result' = Undef
    /\ UNCHANGED <<pvars, evars, nvars>>

\* getRobotPartHistory rejects: the catch logs the error and returns null.
HistoryFails ==
    /\ pc = "awaitHistory"
    /\ failed' = TRUE
    /\ result' = NullResult
    /\ pc' = "done"
    /\ UNCHANGED <<timestamp, history, lastChangeIndex, part, calls, pvars, evars, nvars>>

\* Lines 159-190 and, unless the current part has to be fetched, lines
\* 192-210, for the answer h of getRobotPartHistory.
AfterHistory(h) ==
    LET idx == LastChangeIndex(h.entries, timestamp)
    IN  /\ history' = h
        /\ IF ~h.present \/ Len(h.entries) = 0 \/ idx = -1
           THEN /\ lastChangeIndex' = -1
                /\ result' = NullResult
                /\ pc' = "done"
                /\ UNCHANGED calls
           ELSE /\ lastChangeIndex' = idx
                /\ IF FetchesCurrent(idx)
                   THEN /\ calls' = Append(calls, "getRobotPart")
                        /\ pc' = "awaitPart"
                        /\ UNCHANGED result
                   ELSE /\ result' = LET configEntry == EntryAt(h.entries, NewerNeighbour(idx))
                                     IN  IF configEntry = Undef THEN NullResult
                                         ELSE Finish(h.entries[idx + 1], configEntry)
                        /\ pc' = "done"
                        /\ UNCHANGED calls

\* getRobotPartHistory answers with nothing, or with a history, newest first,
\* of at most MaxHist changes.
HistoryReturns ==
    /\ pc = "awaitHistory"
    /\ \/ AfterHistory(NoHistory)
       \/ \E ts \in {x \in SUBSET (1..MaxTime) : Cardinality(x) <= MaxHist} :
            \E pl \in [ts -> SnapshotKinds \X BOOLEAN] :
              \E at \in 0..(IF Cardinality(ts) < MaxHist THEN Cardinality(ts) + 1 ELSE 0) :
                AfterHistory([present |-> TRUE,
                              entries |-> WithUntimed(HistoryOf(ts, pl), at)])
    /\ UNCHANGED <<timestamp, part, failed, pvars, evars, nvars>>

\* getRobotPart rejects: the catch logs the error and returns null.
PartFails ==
    /\ pc = "awaitPart"
    /\ failed' = TRUE
    /\ result' = NullResult
    /\ pc' = "done"
    /\ UNCHANGED <<timestamp, history, lastChangeIndex, part, calls, pvars, evars, nvars>>

\* getRobotPart answers p: lines 189-210.
PartReturns ==
    /\ pc = "awaitPart"
    /\ \E kind \in SnapshotKinds :
       LET p == Snapshot(kind, 0) IN
        /\ part' = p
        /\ result' = Finish(history.entries[lastChangeIndex + 1], Adapted(p))
    /\ pc' = "done"
    /\ UNCHANGED <<timestamp, history, lastChangeIndex, calls, failed, pvars, evars, nvars>>

NextResolve == ResolveCall \/ HistoryFails \/ HistoryReturns \/ PartFails \/ PartReturns

SpecResolve == InitResolve /\ [][NextResolve]_vars

----------------------------------------------------------------------------
(* Properties of getRobotConfigAtTime (SpecResolve) *)

\* The places (1-based) of the entries made at or before the timestamp
AtOrBeforeQuery ==
    {i \in 1..Len(history.entries) :
        history.entries[i].hasWhen /\ history.entries[i].when <= timestamp}

\* The place of the boundary entry: the first such entry from the front
Boundary == CHOOSE i \in AtOrBeforeQuery : \A j \in AtOrBeforeQuery : i <= j

\* The call has its history, and the boundary entry sits at 0-based index i
BoundaryAt(i) ==
    /\ pc \in {"awaitPart", "done"}
    /\ history.present
    /\ AtOrBeforeQuery # {}
    /\ Boundary = i + 1

\* A snapshot a configuration can be built from
Usable(snapshot) ==
    /\ snapshot # Undef
    /\ snapshot.robotConfig # Undef
    /\ ~applyFragmentMods(snapshot.robotConfig.doc).threw

\* The configuration built from a usable snapshot
Built(snapshot) ==
    [snapshot.robotConfig.doc EXCEPT !.tree = applyFragmentMods(snapshot.robotConfig.doc).tree]

\* The value returned is what the snapshot gives: its configuration, or null
\* when nothing can be built from it
ResolvedFrom(snapshot) ==
    IF Usable(snapshot) THEN result.k = "result" /\ result.config = Built(snapshot)
    ELSE result = NullResult

\* C1: when the boundary entry sits at an index i > 0 of a newest-first
\* history, the value returned is built from the old of the entry at i - 1,
\* and the current configuration is not fetched.
C1_InteriorUsesNewerNeighbour ==
    \A i \in 1..MaxHist :
        BoundaryAt(i) =>
            /\ pc = "done"
            /\ calls = <<"getRobotPartHistory">>
            /\ ResolvedFrom(history.entries[i].old)

\* C1 witness: the boundary entry is the second of three, it has a usable
\* snapshot of its own, and the configuration returned is the newest entry's.
C1_Witness ==
    /\ BoundaryAt(1)
    /\ Len(history.entries) = 3
    /\ Usable(history.entries[2].old)
    /\ result.k = "result"
    /\ result.config = Built(history.entries[1].old)
    /\ result.config # Built(history.entries[2].old)

\* C2: when the boundary entry is the newest entry (index 0), the current
\* part is fetched with getRobotPart and the value returned is built from
\* it, not from the old of a history entry.
C2_NewestUsesCurrent ==
    BoundaryAt(0) =>
        /\ calls = <<"getRobotPartHistory", "getRobotPart">>
        /\ (pc = "done" /\ ~failed) => ResolvedFrom(part)

\* C2 witness: the query is at or after the newest of three entries, each
\* with a snapshot, and the configuration returned is the fetched one.
C2_Witness ==
    /\ BoundaryAt(0) /\ pc = "done"
    /\ Len(history.entries) = 3
    /\ \A i \in 1..3 : Usable(history.entries[i].old)
    /\ result.k = "result"
    /\ result.config = Built(part)

\* The history came back missing or empty, or every entry is after the query
NothingAtOrBefore ==
    /\ pc = "done" /\ ~failed
    /\ (~history.present \/ history.entries = <<>> \/ AtOrBeforeQuery = {})

\* C3: with a missing or empty history, or a timestamp before every entry,
\* the call returns null and does not fetch the current configuration.
C3_NothingKnownIsNull ==
    NothingAtOrBefore => (result = NullResult /\ calls = <<"getRobotPartHistory">>)

\* C3 witness: a history of three entries, all after the query.
C3_Witness ==
    /\ NothingAtOrBefore
    /\ Len(history.entries) = 3
    /\ \A i \in 1..3 : history.entries[i].hasWhen
    /\ result = NullResult

\* C4: the metadata of every result is read from the boundary entry: its
\* when, part, robot, editedBy, and whether it has an old.
C4_MetadataFromBoundary ==
    (pc = "done" /\ result.k = "result") =>
        /\ AtOrBeforeQuery # {}
        /\ LET b == history.entries[Boundary]
           IN  /\ result.metadata.configTimestamp = [fromEntry |-> TRUE, t |-> b.when]
               /\ result.metadata.partId = (IF b.part = Undef THEN "" ELSE b.part.s)
               /\ result.metadata.robotId = (IF b.robot = Undef THEN "" ELSE b.robot.s)
               /\ result.metadata.editedBy = b.editedBy
               /\ result.metadata.hasOldConfig = (b.old # Undef)

\* C4 witness: the snapshot was read from the newer neighbour, which names
\* its part and has an old, while the boundary entry does neither.
C4_Witness ==
    /\ BoundaryAt(1) /\ result.k = "result"
    /\ history.entries[1].part # Undef
    /\ history.entries[2].part = Undef
    /\ history.entries[2].old = Undef
    /\ ~result.metadata.hasOldConfig

\* C5 (as claimed): a failed fetch of the history or of the current part
\* reaches the caller as a HistoryFetchError, never as the null result that
\* stands for no configuration available.
C5_FetchFailureSurfaces == (pc = "done" /\ failed) => result.k = "HistoryFetchError"

\* How often the call under way has made the fetch f
Fetches(f) == Cardinality({i \in 1..Len(calls) : calls[i] = f})

\* C12: a call fetches the history exactly once and before anything else,
\* also when it follows an earlier call; it fetches the current part at most
\* once, and only with the boundary entry at index 0; after a failed fetch it
\* fetches nothing more; and nothing is built before the snapshot is there.
C12_FetchDiscipline ==
    /\ pc = "idle" => calls = <<>>
    /\ pc # "idle" =>
        /\ calls # <<>>
        /\ calls[1] = "getRobotPartHistory"
        /\ Fetches("getRobotPartHistory") = 1
        /\ Fetches("getRobotPart") <= 1
        /\ Len(calls) = Fetches("getRobotPartHistory") + Fetches("getRobotPart")
    /\ Fetches("getRobotPart") > 0 => BoundaryAt(0)
    /\ failed => /\ pc = "done"
                 /\ calls = (IF history.present THEN <<"getRobotPartHistory", "getRobotPart">>
                             ELSE <<"getRobotPartHistory">>)
    /\ pc \in {"awaitHistory", "awaitPart"} => result = Undef
    /\ (pc = "done" /\ result.k = "result") =>
        /\ history.present
        /\ Fetches("getRobotPart") > 0 => (part # Undef /\ result.config = Built(part))

\* C12 witness: the boundary entry was the newest one, the fetch of the
\* current part failed, and the call ended with the two fetches made.
C12_Witness ==
    /\ BoundaryAt(0) /\ pc = "done" /\ failed
    /\ Len(history.entries) >= 2
    /\ calls = <<"getRobotPartHistory", "getRobotPart">>

\* The snapshot the call selected: the fetched part with the boundary entry
\* at index 0, the old of the entry before the boundary entry otherwise
SelectedSnapshot ==
    IF Boundary = 1 THEN part ELSE history.entries[Boundary - 1].old

\* C13: with a boundary entry at or before the timestamp, a selected snapshot
\* that is absent or has no robotConfig makes the call return null; nothing
\* is raised.
C13_MalformedSnapshotIsNull ==
    (/\ pc = "done" /\ ~failed
     /\ history.present /\ AtOrBeforeQuery # {}
     /\ (SelectedSnapshot = Undef \/ SelectedSnapshot.robotConfig = Undef))
    => result = NullResult

\* C13 witness: the boundary entry is the second one and has a usable
\* snapshot of its own, the newest entry's old has no robotConfig, and the
\* call returned null.
C13_Witness ==
    /\ BoundaryAt(1) /\ pc = "done"
    /\ history.entries[1].old = PartNoConfig
    /\ Usable(history.entries[2].old)
    /\ result = NullResult

----------------------------------------------------------------------------
(* Notes server (src/server/index.ts).  A note is [id, key, text, at]: its  *)
(* _id, the (organization_id, location_id, robot_id, pass_id) it is stored  *)
(* under, taken as one value, its note_text and its created_at.  Each        *)
(* request has a handler of its own; a handler runs from one await of a      *)
(* store operation to the next, and a store operation is one step.  The      *)
(* store operations are taken to succeed.  GET /api/notes only reads the     *)
(* collection and is left out.                                               *)

NumHandlers == 2
MaxAt == 2

Handlers == 1..NumHandlers
NoteKeys == {"pass-1", "pass-2"}
NoteTexts == {Str("a"), Str("b")}

StoredNote(i, key, at) == [id |-> i, key |-> key, text |-> Str("old"), at |-> at]
\* Notes the collection may hold when the server starts: three under one key,
\* two of them with the same created_at, and one under another key
StoredNotes ==
    {StoredNote(1, "pass-1", 1), StoredNote(2, "pass-1", MaxAt),
     StoredNote(3, "pass-1", MaxAt), StoredNote(4, "pass-2", 1)}

\* The bodies of POST /api/notes: key "" is a key field that is missing or
\* empty, a text that is no string is Undef, at 0 is no created_at
PostBodies ==
    {[kind |-> "post", key |-> k, text |-> t, at |-> a] :
        k \in NoteKeys, t \in NoteTexts, a \in 0..MaxAt}
    \cup {[kind |-> "post", key |-> "", text |-> Str("a"), at |-> 0],
          [kind |-> "post", key |-> "pass-1", text |-> Undef, at |-> 0]}

\* The query parameters of a DELETE request
Queries(kind) == {[kind |-> kind, key |-> k, text |-> Undef, at |-> 0] : k \in NoteKeys \cup {""}}

NoRequest == [kind |-> "none", key |-> "", text |-> Undef, at |-> 0]
NoResponse == [status |-> 0]
BadRequest == [status |-> 400]

\* !organization_id || !location_id || !robot_id || !pass_id ||
\* typeof note_text !== 'string'
ValidPost(body) == body.key # "" /\ body.text.k = "str"

\* !organizationId || !locationId || !robotId || !passId
ValidQuery(q) == q.key # ""

\* The notes a query { organization_id, location_id, robot_id, pass_id } finds
NotesOf(coll, key) == {n \in coll : n.key = key}

\* The mutated delete: nothing is removed.
deleteNone(coll, key) == coll

\* col.deleteMany({ organization_id, location_id, robot_id, pass_id })
deleteMany(coll, key) == coll \ NotesOf(coll, key)

\* The mutated sort: oldest first.
OldestOf(found) == {n \in found : \A m \in found : n.at <= m.at}

\* .sort({ created_at: -1 }): the notes that may come first, the order of
\* notes with one created_at being the store's choice
NewestOf(found) == {n \in found : \A m \in found : n.at >= m.at}

\* Requests are numbered as they arrive; without overlap a request arrives
\* when the one before it has been answered.
Arrives(h) ==
    /\ npc[h] = "idle"
    /\ \A g \in Handlers : g < h =>
          (IF overlapping THEN npc[g] # "idle" ELSE npc[g] = "done")

Respond(h, r) ==
    /\ resp' = [resp EXCEPT ![h] = r]
    /\ npc' = [npc EXCEPT ![h] = "done"]

NotesStart ==
    /\ notes \in SUBSET StoredNotes
    /\ nextId = Cardinality(StoredNotes) + 1
    /\ npc = [h \in Handlers |-> "idle"]
    /\ req = [h \in Handlers |-> NoRequest]
    /\ idsToDelete = [h \in Handlers |-> {}]
    /\ resp = [h \in Handlers |-> NoResponse]
    /\ InitPatchIdle
    /\ InitExpandIdle
    /\ InitResolveIdle

\* Requests handled one after the other
InitNotes == NotesStart /\ overlapping = FALSE

\* Requests handled while others are under way
InitNotesRace == NotesStart /\ overlapping = TRUE

\* POST /api/notes up to the end of await col.deleteMany(...)
PostDeleteMany(h) ==
    /\ Arrives(h)
    /\ \E body \in PostBodies :
        /\ req' = [req EXCEPT ![h] = body]
        /\ IF ~ValidPost(body)
           THEN Respond(h, BadRequest) /\ UNCHANGED notes
           ELSE /\ notes' = deleteMany(notes, body.key)
                /\ npc' = [npc EXCEPT ![h] = "insertOne"]
                /\ UNCHANGED resp
    /\ UNCHANGED <<nextId, idsToDelete, overlapping, pvars, evars, rvars>>

\* POST /api/notes from there: await col.insertOne(doc) and the response
PostInsertOne(h) ==
    /\ npc[h] = "insertOne"
    /\ \E now \in 1..MaxAt :
        /\ req[h].at = 0 \/ now = req[h].at
        /\ notes' = notes \cup {[id |-> nextId, key |-> req[h].key, text |-> req[h].text,
                                 at |-> now]}
    /\ nextId' = nextId + 1
    /\ Respond(h, [status |-> 201, id |-> nextId])
    /\ UNCHANGED <<req, idsToDelete, overlapping, pvars, evars, rvars>>

\* DELETE /api/notes
DeleteNotes(h) ==
    /\ Arrives(h)
    /\ \E q \in Queries("delete") :
        /\ req' = [req EXCEPT ![h] = q]
        /\ IF ~ValidQuery(q)
           THEN Respond(h, BadRequest) /\ UNCHANGED notes
           ELSE /\ notes' = deleteMany(notes, q.key)
                /\ Respond(h, [status |-> 200,
                               deletedCount |-> Cardinality(notes) - Cardinality(notes')])
    /\ UNCHANGED <<nextId, idsToDelete, overlapping, pvars, evars, rvars>>

\* DELETE /api/notes/old up to the end of await col.find(query).sort(...)
\* .toArray(), with the response when there is at most one note
DeleteOldFind(h) ==
    /\ Arrives(h)
    /\ \E q \in Queries("old") :
        /\ req' = [req EXCEPT ![h] = q]
        /\ IF ~ValidQuery(q)
           THEN Respond(h, BadRequest) /\ UNCHANGED idsToDelete
           ELSE LET docs == NotesOf(notes, q.key)
                IN  IF Cardinality(docs) <= 1
                    THEN Respond(h, [status |-> 200, deletedCount |-> 0])
                         /\ UNCHANGED idsToDelete
                    ELSE /\ \E first \in NewestOf(docs) :
                              idsToDelete' =
                                  [idsToDelete EXCEPT ![h] = {n.id : n \in docs \ {first}}]
                         /\ npc' = [npc EXCEPT ![h] = "deleteOld"]
                         /\ UNCHANGED resp
    /\ UNCHANGED <<notes, nextId, overlapping, pvars, evars, rvars>>

\* DELETE /api/notes/old from there: await col.deleteMany({ _id: { $in:
\* idsToDelete } }) and the response
DeleteOldMany(h) ==
    /\ npc[h] = "deleteOld"
    /\ notes' = {n \in notes : n.id \notin idsToDelete[h]}
    /\ Respond(h, [status |-> 200,
                   deletedCount |-> Cardinality(notes) - Cardinality(notes')])
    /\ UNCHANGED <<nextId, req, idsToDelete, overlapping, pvars, evars, rvars>>

NextNotes ==
    \E h \in Handlers :
        \/ PostDeleteMany(h)
        \/ PostInsertOne(h)
        \/ DeleteNotes(h)
        \/ DeleteOldFind(h)
        \/ DeleteOldMany(h)

SpecNotes == InitNotes /\ [][NextNotes]_vars

SpecNotesRace == InitNotesRace /\ [][NextNotes]_vars

----------------------------------------------------------------------------
(* Properties of the notes server (SpecNotes, SpecNotesRace) *)

\* The step is the store operation named by from of a POST handled by h.
PostStep(h, from) ==
    /\ npc[h] = from
    /\ npc'[h] # from
    /\ req'[h].kind = "post"
    /\ ValidPost(req'[h])

OldAnswered(h) ==
    /\ npc[h] # "done"
    /\ npc'[h] = "done"
    /\ req'[h].kind = "old"
    /\ ValidQuery(req'[h])

\* C15: with requests handled one after the other, DELETE /api/notes/old on a
\* key with n >= 1 notes leaves exactly one of them, one whose created_at no
\* other note of the key exceeds, and answers deletedCount n - 1; on a key
\* without notes it answers 0; the notes of every other key stay.
C15_OldKeepsNewest ==
    [][\A h \in Handlers :
          OldAnswered(h) =>
              LET k == req'[h].key
                  before == NotesOf(notes, k)
                  after == NotesOf(notes', k)
              IN  /\ before # {} =>
                        /\ Cardinality(after) = 1
                        /\ after \subseteq before
                        /\ \A a \in after : \A b \in before : a.at >= b.at
                        /\ resp'[h].deletedCount = Cardinality(before) - 1
                  /\ before = {} => (after = {} /\ resp'[h].deletedCount = 0)
                  /\ notes' \ after = notes \ before]_vars

\* C15 witness: the key held three notes, the oldest and one of the two
\* newest were deleted, and the note of the other key is still there.
C15_Witness ==
    /\ npc[1] = "done" /\ req[1].kind = "old" /\ req[1].key = "pass-1"
    /\ resp[1] = [status |-> 200, deletedCount |-> 2]
    /\ \E n \in notes : NotesOf(notes, "pass-1") = {n} /\ n.at = MaxAt
    /\ NotesOf(notes, "pass-2") = NotesOf(StoredNotes, "pass-2")
    /\ NotesOf(notes, "pass-2") # {}

\* The valid POSTs for key k that have been answered
PostsAnswered(k) ==
    {h \in Handlers : npc[h] = "done" /\ req[h].kind = "post" /\ ValidPost(req[h])
                      /\ req[h].key = k}

\* C18 (as claimed): when POSTs for one key are handled at the same time,
\* each deleteMany and each insertOne a step of its own, the key holds at
\* most one note once every handler has answered.
C18_RacingPostsLeaveOneNote ==
    (\A h \in Handlers : npc[h] \in {"idle", "done"}) =>
        \A k \in NoteKeys :
            Cardinality(PostsAnswered(k)) >= 2 => Cardinality(NotesOf(notes, k)) <= 1

====
